---- MODULE Spec2Model ----
(***************************************************************************)
(* The diabetes-risk Streamlit application (src/app.py): the script is     *)
(* executed from the top on every user interaction; st.session_state is    *)
(* what survives from one execution to the next.                           *)
(*                                                                         *)
(* Numbers.  Python ints and floats are modelled as exact rationals        *)
(* <<num, den>> with den > 0, in lowest terms, so 0.20 is <<1, 5>>,        *)
(* 1.70 is <<17, 10>> and 30 is <<30, 1>>.  Python's None is <<>>.         *)
(*                                                                         *)
(* Two lines of src/app.py are read as they are evidently meant: line 261  *)
(* lacks the closing quote of type="primary", and line 851, the            *)
(* `if __name__ == '__main__':` guard, has lost its body, the call main(). *)
(*                                                                         *)
(* Spec is the risk assessment as the user drives it, with every           *)
(* combination of blank and filled fields.  AppSpec adds the forum and the *)
(* appointment page and edits two of the nine fields.  EnvSpec lets the    *)
(* classifier file change on disk between two executions.  FnSpec calls    *)
(* the module-level functions directly, on arguments the pages never pass. *)
(* ForumSpec and BookingSpec are one browser session on the forum and on   *)
(* the appointment page.                                                   *)
(***************************************************************************)
EXTENDS Integers, Sequences, FiniteSets, TLC

VARIABLES
    artifact,       \* the file trained_model.joblib: "ok", "missing", "unreadable"
    loaded_model,   \* module global loaded_model of the last execution
    choice,         \* page selected in the sidebar in the last execution
    inputs,         \* st.session_state['input_<field>'] for the nine fields
    BMI,            \* st.session_state['BMI']
    run,            \* locals of the assess handler in the last execution
    shown,          \* st.success/warning/error/info messages of the last execution
    escaped,        \* exception that ended the last execution, or "none"
    assessments,    \* st.session_state['assessments']: user id -> list
    posts,          \* st.session_state['posts']
    appointments,   \* st.session_state['appointments']
    session_keys,   \* which of the keys main() creates st.session_state holds
    view,           \* sorted_appointments as the appointment page last drew it
    call            \* last direct call of a module-level function (FnSpec only)

vars ==
    <<artifact, loaded_model, choice, inputs, BMI, run, shown, escaped,
      assessments, posts, appointments, session_keys, view, call>>

None == <<>>

----------------------------------------------------------------------------
(* Arithmetic on rationals *)

Abs(n) == IF n < 0 THEN -n ELSE n

RECURSIVE GCD(_, _)
GCD(a, b) == IF b = 0 THEN a ELSE GCD(b, a % b)

\* the rational n/d (d # 0) in lowest terms with a positive denominator
Rat(n, d) ==
    LET s == IF d < 0 THEN -1 ELSE 1
        g == GCD(Abs(n), Abs(d))
    IN  <<(s * n) \div g, (s * d) \div g>>

Num(n) == <<n, 1>>

Lt(a, b) == a[1] * b[2] < b[1] * a[2]
Gt(a, b) == Lt(b, a)
Mul(a, b) == Rat(a[1] * b[1], a[2] * b[2])

\* Python's a / b: ZeroDivisionError when b is 0
TrueDiv(a, b) ==
    IF b[1] = 0 THEN [exc |-> "ZeroDivisionError", ret |-> None]
    ELSE [exc |-> "none", ret |-> Rat(a[1] * b[2], a[2] * b[1])]

\* f"{x:.2f}": x rounded to two decimals
Format2f(x) == Rat((2 * 100 * x[1] + x[2]) \div (2 * x[2]), 100)

----------------------------------------------------------------------------
(* Constants of the program *)

DEFAULT_AGE == Num(30)
DEFAULT_WEIGHT == Num(70)
DEFAULT_HEIGHT == Rat(170, 100)
DEFAULT_PREGNANCIES == Num(0)
DEFAULT_GLUCOSE == Num(100)
DEFAULT_BLOODPRESSURE == Num(80)
DEFAULT_SKINTHICKNESS == Num(20)
DEFAULT_INSULIN_typo == Num(5)
DEFAULT_INSULIN == Num(50)
DEFAULT_DIABETESPEDIGREEFUNCTION == Rat(5, 10)

input_keys ==
    {"age", "pregnancies", "glucose", "blood_pressure", "skin_thickness",
     "insulin", "weight", "height", "diabetes_pedigree_function"}

\* the fields whose widgets sit in tab1; the others sit in tab2
tab1_keys == {"age", "pregnancies", "weight", "height"}

TheModel == <<"trained_model.joblib">>

Pages ==
    {"Risk Assessment", "Prevention Articles", "Assessment History",
     "Doctor Appointment", "Discussion Forum", "About"}

NoPage == "(none)"

----------------------------------------------------------------------------
(* Messages put on the page: tone is the st.* call, pct the formatted percentage *)

Msg(tone, text, pct) == [tone |-> tone, text |-> text, pct |-> pct]

ModelFileNotFoundMsg == Msg("error", "Trained model file not found", None)
ModelNotLoadedMsg == Msg("error", "Model not loaded. Cannot assess risk", None)
UnavailableMsg == Msg("info", "Risk assessment unavailable", None)

----------------------------------------------------------------------------
(* The module-level functions *)

\* model.predict_proba(X): the classifier is opaque; `outcome` is what this
\* call does, [exc |-> name] when it raises, else [exc |-> "none", ret |-> rows]
predict_proba(model, X, outcome) == outcome

\* taking the last entry of the row, prediction_proba[0][-1]
classify_last_column(input_data, model, outcome) ==
    LET input_data_reshaped == <<input_data>>
        r == predict_proba(model, input_data_reshaped, outcome)
        prediction_proba == r.ret
        result(e, v) == [exc |-> e, ret |-> v, calls |-> <<input_data_reshaped>>]
    IN  IF r.exc # "none" THEN result(r.exc, None)
        ELSE IF Len(prediction_proba) = 0 THEN result("IndexError", None)
        ELSE IF Len(prediction_proba[1]) = 0 THEN result("IndexError", None)
        ELSE result("none", prediction_proba[1][Len(prediction_proba[1])])

\* lines 100-103: the call of the classifier and the choice of the column
classify(input_data, model, outcome) ==
    LET input_data_reshaped == <<input_data>>      \* reshape(1, -1): one row
        r == predict_proba(model, input_data_reshaped, outcome)
        prediction_proba == r.ret
        result(e, v) == [exc |-> e, ret |-> v, calls |-> <<input_data_reshaped>>]
    IN  IF r.exc # "none" THEN result(r.exc, None)
        ELSE IF Len(prediction_proba) = 0 THEN result("IndexError", None)
        ELSE IF Len(prediction_proba[1]) > 1 THEN result("none", prediction_proba[1][2])
        ELSE IF Len(prediction_proba[1]) = 0 THEN result("IndexError", None)
        ELSE result("none", prediction_proba[1][1])

\* without the guard of line 98, None.predict_proba raises
diabetes_prediction_proba_unguarded(input_data, model, outcome) ==
    IF model = None
    THEN [exc |-> "AttributeError", ret |-> None, calls |-> <<>>]
    ELSE classify(input_data, model, outcome)

diabetes_prediction_proba(input_data, model, outcome) ==
    IF model = None
    THEN [exc |-> "none", ret |-> None, calls |-> <<>>]
    ELSE classify(input_data, model, outcome)

calculate_bmi_ge(weight, height) ==
    IF ~Lt(height, Num(0))
    THEN TrueDiv(weight, Mul(height, height))
    ELSE [exc |-> "none", ret |-> Num(0)]

calculate_bmi(weight, height) ==
    IF Gt(height, Num(0))
    THEN TrueDiv(weight, Mul(height, height))
    ELSE [exc |-> "none", ret |-> Num(0)]

get_risk_level_le(probability) ==
    IF probability = None THEN "N/A"
    ELSE IF ~Gt(probability, Rat(20, 100)) THEN "Low"
    ELSE IF ~Gt(probability, Rat(50, 100)) THEN "Moderate"
    ELSE "Elevated"

get_risk_level_falsy(probability) ==
    IF probability = None \/ probability = Num(0) THEN "N/A"
    ELSE IF Lt(probability, Rat(20, 100)) THEN "Low"
    ELSE IF Lt(probability, Rat(50, 100)) THEN "Moderate"
    ELSE "Elevated"

get_risk_level(probability) ==
    IF probability = None THEN "N/A"
    ELSE IF Lt(probability, Rat(20, 100)) THEN "Low"
    ELSE IF Lt(probability, Rat(50, 100)) THEN "Moderate"
    ELSE "Elevated"

\* st.warning and st.error exchanged
display_risk_interpretation_swapped(risk_level, probability) ==
    IF risk_level \in {"Low", "Moderate", "Elevated"}
    THEN IF probability = None
         THEN [exc |-> "TypeError", shown |-> <<>>]
         ELSE LET pct == Format2f(Mul(probability, Num(100)))
                  tone == IF risk_level = "Low" THEN "success"
                          ELSE IF risk_level = "Moderate" THEN "error"
                          ELSE "warning"
              IN  [exc |-> "none", shown |-> <<Msg(tone, risk_level, pct)>>]
    ELSE [exc |-> "none", shown |-> <<UnavailableMsg>>]

\* the messages display_risk_interpretation emits; None * 100 is a TypeError
display_risk_interpretation(risk_level, probability) ==
    IF risk_level \in {"Low", "Moderate", "Elevated"}
    THEN IF probability = None
         THEN [exc |-> "TypeError", shown |-> <<>>]
         ELSE LET pct == Format2f(Mul(probability, Num(100)))
                  tone == IF risk_level = "Low" THEN "success"
                          ELSE IF risk_level = "Moderate" THEN "warning"
                          ELSE "error"
              IN  [exc |-> "none", shown |-> <<Msg(tone, risk_level, pct)>>]
    ELSE [exc |-> "none", shown |-> <<UnavailableMsg>>]

----------------------------------------------------------------------------
(* Startup: lines 78-83, executed at the top of every execution *)

joblib_load(a) ==
    IF a = "ok" THEN [exc |-> "none", ret |-> TheModel]
    ELSE IF a = "missing" THEN [exc |-> "FileNotFoundError", ret |-> None]
    ELSE [exc |-> "UnpicklingError", ret |-> None]

\* lines 78-83 without the except clause
load_model_uncaught(a) ==
    LET r == joblib_load(a)
    IN  [exc |-> r.exc, loaded_model |-> r.ret, shown |-> <<>>]

load_model(a) ==
    LET r == joblib_load(a)
    IN  IF r.exc = "none"
        THEN [exc |-> "none", loaded_model |-> r.ret, shown |-> <<>>]
        ELSE IF r.exc = "FileNotFoundError"
        THEN [exc |-> "none", loaded_model |-> None, shown |-> <<ModelFileNotFoundMsg>>]
        ELSE [exc |-> r.exc, loaded_model |-> None, shown |-> <<>>]

----------------------------------------------------------------------------
(* The risk assessment page *)

AllNone == [k \in input_keys |-> None]

\* what predict_proba did in an execution that did not call it
NotCalled == [exc |-> "not called", ret |-> <<>>]

NoRun ==
    [button |-> FALSE, final |-> AllNone, input_data |-> None,
     classifier_calls |-> <<>>, prediction_proba |-> NotCalled,
     risk_probability |-> None, risk_level |-> "unset"]

\* lines 264-272, one conditional expression per field
final_age(ss) == IF ss["age"] # None THEN ss["age"] ELSE DEFAULT_AGE
final_pregnancies(ss) ==
    IF ss["pregnancies"] # None THEN ss["pregnancies"] ELSE DEFAULT_PREGNANCIES

final_glucose_truthy(ss) ==
    IF ss["glucose"] # None /\ ss["glucose"] # Num(0)
    THEN ss["glucose"] ELSE DEFAULT_GLUCOSE

final_glucose(ss) == IF ss["glucose"] # None THEN ss["glucose"] ELSE DEFAULT_GLUCOSE
final_blood_pressure(ss) ==
    IF ss["blood_pressure"] # None THEN ss["blood_pressure"] ELSE DEFAULT_BLOODPRESSURE
final_skin_thickness(ss) ==
    IF ss["skin_thickness"] # None THEN ss["skin_thickness"] ELSE DEFAULT_SKINTHICKNESS
final_insulin(ss) == IF ss["insulin"] # None THEN ss["insulin"] ELSE DEFAULT_INSULIN

\* falling back to another constant than the live BMI does
final_weight_other(ss) == IF ss["weight"] # None THEN ss["weight"] ELSE DEFAULT_AGE

final_weight(ss) == IF ss["weight"] # None THEN ss["weight"] ELSE DEFAULT_WEIGHT

final_height_copied(ss) == IF ss["height"] # None THEN ss["height"] ELSE DEFAULT_WEIGHT

final_height(ss) == IF ss["height"] # None THEN ss["height"] ELSE DEFAULT_HEIGHT
final_diabetes_pedigree_function(ss) ==
    IF ss["diabetes_pedigree_function"] # None
    THEN ss["diabetes_pedigree_function"] ELSE DEFAULT_DIABETESPEDIGREEFUNCTION

final_values(ss) ==
    [k \in input_keys |->
        CASE k = "age" -> final_age(ss)
          [] k = "pregnancies" -> final_pregnancies(ss)
          [] k = "glucose" -> final_glucose(ss)
          [] k = "blood_pressure" -> final_blood_pressure(ss)
          [] k = "skin_thickness" -> final_skin_thickness(ss)
          [] k = "insulin" -> final_insulin(ss)
          [] k = "weight" -> final_weight(ss)
          [] k = "height" -> final_height(ss)
          [] k = "diabetes_pedigree_function" -> final_diabetes_pedigree_function(ss)]

input_data_swapped(final, final_bmi) ==
    <<final["glucose"], final["pregnancies"], final["blood_pressure"],
      final["skin_thickness"], final["insulin"], final_bmi,
      final["diabetes_pedigree_function"], final["age"]>>

\* line 277
input_data_list(final, final_bmi) ==
    <<final["pregnancies"], final["glucose"], final["blood_pressure"],
      final["skin_thickness"], final["insulin"], final_bmi,
      final["diabetes_pedigree_function"], final["age"]>>

\* lines 263-282: the scoring branch of the assess handler
score(ss, model, outcome) ==
    LET final == final_values(ss)
        b == calculate_bmi(final["weight"], final["height"])
        pressed == [NoRun EXCEPT !.button = TRUE, !.final = final]
    IN  IF b.exc # "none"
        THEN [run |-> pressed, shown |-> <<>>, exc |-> b.exc]
        ELSE LET input_data == input_data_list(final, b.ret)
                 p == diabetes_prediction_proba(input_data, model, outcome)
                 called == [pressed EXCEPT !.input_data = input_data,
                                           !.classifier_calls = p.calls,
                                           !.prediction_proba =
                                               IF p.calls = <<>> THEN NotCalled
                                               ELSE outcome]
             IN  IF p.exc # "none"
                 THEN [run |-> called, shown |-> <<>>, exc |-> p.exc]
                 ELSE LET risk_level == get_risk_level(p.ret)
                          d == display_risk_interpretation(risk_level, p.ret)
                      IN  [run |-> [called EXCEPT !.risk_probability = p.ret,
                                                  !.risk_level = risk_level],
                           shown |-> d.shown, exc |-> d.exc]

\* raising in the else branch instead of reporting with st.error
button_handler_raises(ss, model, outcome) ==
    IF model # None
    THEN score(ss, model, outcome)
    ELSE [run |-> [NoRun EXCEPT !.button = TRUE], shown |-> <<>>,
          exc |-> "RuntimeError"]

\* lines 261-284: the body of `if st.button(...)`; a loaded estimator is truthy
button_handler(ss, model, outcome) ==
    IF model # None
    THEN score(ss, model, outcome)
    ELSE [run |-> [NoRun EXCEPT !.button = TRUE],
          shown |-> <<ModelNotLoadedMsg>>, exc |-> "none"]

\* ss: the stored inputs; w: what the nine number_input widgets return;
\* press: whether the assess button was clicked
risk_assessment_page(ss, w, bmi0, press, model, outcome) ==
    LET ss1 == [k \in input_keys |-> IF k \in tab1_keys THEN w[k] ELSE ss[k]]
        bmi == calculate_bmi(
                   IF ss1["weight"] # None THEN ss1["weight"] ELSE DEFAULT_WEIGHT,
                   IF ss1["height"] # None THEN ss1["height"] ELSE DEFAULT_HEIGHT)
        ss2 == [k \in input_keys |-> w[k]]
    IN  IF bmi.exc # "none"
        THEN [inputs |-> ss1, BMI |-> bmi0, run |-> NoRun, shown |-> <<>>,
              exc |-> bmi.exc]
        ELSE IF ~press
        THEN [inputs |-> ss2, BMI |-> bmi.ret, run |-> NoRun, shown |-> <<>>,
              exc |-> "none"]
        ELSE LET h == button_handler(ss2, model, outcome)
             IN  [inputs |-> ss2, BMI |-> bmi.ret, run |-> h.run, shown |-> h.shown,
                  exc |-> h.exc]

\* lines 799-849: the sidebar choice dispatches to one page
main(ch, ss, w, bmi0, press, model, outcome) ==
    IF ch = "Risk Assessment"
    THEN risk_assessment_page(ss, w, bmi0, press, model, outcome)
    ELSE [inputs |-> ss, BMI |-> bmi0, run |-> NoRun, shown |-> <<>>, exc |-> "none"]

\* lines 803-811: the keys main() creates in a session that has none of them
NewSession == [assessments |-> <<>>, posts |-> <<>>, appointments |-> <<>>]

\* lines 803-811; a list variable holds the empty list while its key is absent
SessionKeys == {"assessments", "show_minh_history", "posts", "appointments"}
main_init(keys) == keys \cup SessionKeys

\* lines 611-615
DefaultPosts ==
    <<[title |-> "Welcome to the Community!",
       content |-> "Hi everyone, I'm new here and looking forward to learning more.",
       comments |-> <<"Welcome! Start with small changes.", "Consistency is key!",
                      "Don't underestimate sleep.">>],
      [title |-> "Question about Low-Sugar Snacks",
       content |-> "I'm trying to reduce my sugar intake.",
       comments |-> <<"Nuts and seeds are a good choice!",
                      "Greek yogurt with berries (in moderation).",
                      "Vegetable sticks with hummus.",
                      "Hard-boiled eggs are great for protein.">>],
      [title |-> "Motivation for Exercise",
       content |-> "Does anyone have advice for staying motivated to exercise regularly?",
       comments |-> <<"Find an exercise buddy!", "Set small, achievable goals.",
                      "Try different activities until you find something you enjoy.",
                      "Schedule it like an important appointment.">>]>>

\* lines 610-616: what display_posts leaves in 'posts' before it draws them
display_posts(keys, ps) == IF "posts" \notin keys THEN DefaultPosts ELSE ps

CommentWarningMsg == Msg("warning", "Please type something to post a comment.", None)

\* the comment put before the earlier ones
post_comment_first(ps, i, comment_text) ==
    IF comment_text # ""
    THEN [posts |-> [ps EXCEPT ![i].comments = <<comment_text>> \o @],
          shown |-> <<>>]
    ELSE [posts |-> ps, shown |-> <<CommentWarningMsg>>]

\* lines 642-650: the submit handler of the comment form of the post drawn
\* at index i (the i-th element here); every post has its 'comments' key
post_comment(ps, i, comment_text) ==
    IF comment_text # ""
    THEN [posts |-> [ps EXCEPT ![i].comments = Append(@, comment_text)],
          shown |-> <<>>]
    ELSE [posts |-> ps, shown |-> <<CommentWarningMsg>>]

\* line 744: the sort key (x['date'], x['time']), compared as tuples
KeyLess(a, b) == a.date < b.date \/ (a.date = b.date /\ a.time < b.time)

\* sorted() is stable: as[j] goes before as[k] when its key is smaller, or
\* equal with j before k
Before(as, j, k) == KeyLess(as[j], as[k]) \/ (~KeyLess(as[k], as[j]) /\ j < k)

sort_order_descending(as) ==
    [i \in 1..Len(as) |->
        CHOOSE k \in 1..Len(as) :
            Cardinality({j \in 1..Len(as) : Before(as, k, j)}) + 1 = i]

\* the index in 'appointments' of the element sorted() puts at position i
sort_order(as) ==
    [i \in 1..Len(as) |->
        CHOOSE k \in 1..Len(as) :
            Cardinality({j \in 1..Len(as) : Before(as, j, k)}) + 1 = i]

\* lines 742-745: a new list; 'appointments' is not touched
sorted_appointments(as) == [i \in 1..Len(as) |-> as[sort_order(as)[i]]]

\* the four fields the cancel handler compares (lines 784-787)
SameSlot(a, b) ==
    /\ a.doctor = b.doctor
    /\ a.hospital = b.hospital
    /\ a.date = b.date
    /\ a.time = b.time

\* the matching appointment taken out of the list
cancel_appointment_removing(as, appt) ==
    IF \E j \in 1..Len(as) : SameSlot(as[j], appt)
    THEN SelectSeq(as, LAMBDA a : ~SameSlot(a, appt))
    ELSE as

\* lines 781-792: the handler of the cancel button of appt, an element of
\* sorted_appointments: the first stored appointment with the same doctor,
\* hospital, date and time is set to Cancelled, then break
cancel_appointment(as, appt) ==
    IF \E j \in 1..Len(as) : SameSlot(as[j], appt)
    THEN [as EXCEPT ![CHOOSE j \in 1..Len(as) :
                         /\ SameSlot(as[j], appt)
                         /\ \A l \in 1..(j - 1) : ~SameSlot(as[l], appt)].status =
                             "Cancelled"]
    ELSE as

\* lines 134-136; a: st.session_state['assessments']
load_assessment_history(a, user_id) ==
    IF user_id \in DOMAIN a THEN a[user_id] ELSE <<>>

PostWarningMsg ==
    Msg("warning", "Please enter both a title and content for your post.", None)

\* the new post put at the end of the list
create_new_post_append(ps, title, content) ==
    IF title # "" /\ content # ""
    THEN [posts |-> Append(ps, [title |-> title, content |-> content, comments |-> <<>>]),
          shown |-> <<>>]
    ELSE [posts |-> ps, shown |-> <<PostWarningMsg>>]

\* `if title or content`
create_new_post_or(ps, title, content) ==
    IF title # "" \/ content # ""
    THEN [posts |-> <<[title |-> title, content |-> content, comments |-> <<>>]>> \o ps,
          shown |-> <<>>]
    ELSE [posts |-> ps, shown |-> <<PostWarningMsg>>]

\* lines 659-668: the submit handler of the new post form; st.success is
\* followed at once by st.rerun(), so its message is never left on the page
create_new_post(ps, title, content) ==
    IF title # "" /\ content # ""
    THEN [posts |-> <<[title |-> title, content |-> content, comments |-> <<>>]>> \o ps,
          shown |-> <<>>]
    ELSE [posts |-> ps, shown |-> <<PostWarningMsg>>]

\* the new appointment put at the head of the list
book_appointment_first(as, doctor, hospital, date, time, reason, notes) ==
    <<[doctor |-> doctor, hospital |-> hospital, date |-> date,
       time |-> time, reason |-> reason, notes |-> notes,
       status |-> "Booked"]>> \o as

\* lines 720-735: the submit handler of the booking form
book_appointment(as, doctor, hospital, date, time, reason, notes) ==
    Append(as, [doctor |-> doctor, hospital |-> hospital, date |-> date,
                time |-> time, reason |-> reason, notes |-> notes,
                status |-> "Booked"])

\* the state an execution leaves: ld is what lines 78-83 gave, pg what main() gave
Executed(ld, ch, pg) ==
    [loaded_model |-> ld.loaded_model, choice |-> ch, inputs |-> pg.inputs,
     BMI |-> pg.BMI, run |-> pg.run, shown |-> ld.shown \o pg.shown,
     escaped |-> IF ld.exc # "none" THEN ld.exc ELSE pg.exc]

\* an uncaught exception at line 80 ends the execution before main() is reached
NotReached(ss, bmi0) ==
    [inputs |-> ss, BMI |-> bmi0, run |-> NoRun, shown |-> <<>>, exc |-> "none"]

Continue(ld, ch, ss, w, bmi0, press, outcome) ==
    IF ld.exc # "none"
    THEN Executed(ld, NoPage, NotReached(ss, bmi0))
    ELSE Executed(ld, ch, main(ch, ss, w, bmi0, press, ld.loaded_model, outcome))

\* one execution of the script
Execute(a, ch, ss, w, bmi0, press, outcome) ==
    Continue(load_model(a), ch, ss, w, bmi0, press, outcome)

----------------------------------------------------------------------------
(* What the environment can do *)

Raises == [exc |-> "Exception", ret |-> <<>>]
Returns(rows) == [exc |-> "none", ret |-> rows]

ProbSamples ==
    {Num(0), Rat(18, 100), Rat(199999, 1000000), Rat(20, 100), Rat(35, 100),
     Rat(499999, 1000000), Rat(50, 100), Rat(62, 100), Num(1)}

\* predict_proba raising, returning no row, an empty row, a two-column row,
\* a one-column row, a row outside [0, 1], a three-column row
Outcomes ==
    {Raises, Returns(<<>>), Returns(<< <<>> >>)}
    \cup {Returns(<< <<Rat(20, 100), Rat(30, 100), Rat(50, 100)>> >>)}
    \cup {Returns(<< <<Rat(p[2] - p[1], p[2]), p>> >>) : p \in ProbSamples}
    \cup {Returns(<< <<p>> >>) : p \in {Rat(18, 100), Rat(62, 100)}}
    \cup {Returns(<< <<Rat(-1, 2), Rat(3, 2)>> >>)}

Le(a, b) == ~Lt(b, a)

\* a number_input with no lower limit
min_value_unlimited(k) == Num(-1000)

\* lines 164-238: the limits of the nine number_input widgets
min_value(k) ==
    CASE k = "weight" -> Num(20)
      [] k = "height" -> Rat(5, 10)
      [] OTHER -> Num(0)

max_value(k) ==
    CASE k = "age" -> Num(120)
      [] k = "pregnancies" -> Num(20)
      [] k = "glucose" -> Num(300)
      [] k = "blood_pressure" -> Num(200)
      [] k = "skin_thickness" -> Num(100)
      [] k = "insulin" -> Num(850)
      [] k = "weight" -> Num(300)
      [] k = "height" -> Num(3)
      [] k = "diabetes_pedigree_function" -> Num(3)

\* numbers the user may type into the widget of field k, some of them below
\* its lower limit or above its upper limit
Typed(k) ==
    {Num(-1), Rat(-1, 2)} \cup
    CASE k = "age" -> {Num(0), Num(45), Num(121)}
      [] k = "pregnancies" -> {Num(3), Num(21)}
      [] k = "glucose" -> {Num(0), Num(180), Num(301)}
      [] k = "blood_pressure" -> {Num(95), Num(201)}
      [] k = "skin_thickness" -> {Num(35), Num(101)}
      [] k = "insulin" -> {Num(0), Num(851)}
      [] k = "weight" -> {Num(10), Num(95), Num(301)}
      [] k = "height" -> {Num(0), Rat(160, 100), Rat(301, 100)}
      [] k = "diabetes_pedigree_function" -> {Rat(1250, 1000), Rat(3001, 1000)}

InRange(k, v) == Le(min_value(k), v) /\ Le(v, max_value(k))

\* values a number_input can return: None (left blank) or a number within
\* min_value..max_value of the widget; a number outside is not accepted
WidgetValues(k) == {None} \cup {v \in Typed(k) : InRange(k, v)}

NoCall == [fn |-> "none", args |-> <<>>, res |-> [exc |-> "none", ret |-> None]]

\* what the user types in the new post form; both boxes may be left empty
Titles == {"", "My Experience with Low-Carb Diet"}
Contents == {"", "What are your top tips?"}

\* what the user picks in the booking form: two of the four doctors, the
\* first hospital and reason, today or tomorrow, the default time 09:00
Doctors == {"Dr. Alice Smith (Endocrinologist)", "Dr. Bob Johnson (General Practitioner)"}
Hospital == "City General Hospital"
Reason == "General Check-up"
Dates == {0, 1}
NineOClock == 9 * 60

\* user ids a history can be asked for
UserIds == {"minh", "guest"}

\* trained_model.joblib at line 80: loadable, absent, or present but not loadable
Artifacts == {"ok", "missing", "unreadable"}

MaxPosts == 2
MaxAppointments == 2

\* what the user types in a comment form; the box may be left empty
CommentTexts == {"", "Thanks for sharing!", "Same here."}
MaxComments == 2

\* titles of the posts created in a session on the forum
ForumTitles == Titles \cup {"Walking after meals"}

\* times picked in the booking form, in steps of 30 minutes
Times == {NineOClock, NineOClock + 30}

----------------------------------------------------------------------------
(* The state machine *)

Becomes(r) ==
    /\ loaded_model' = r.loaded_model
    /\ choice' = r.choice
    /\ inputs' = r.inputs
    /\ BMI' = r.BMI
    /\ run' = r.run
    /\ shown' = r.shown
    /\ escaped' = r.escaped

Is(r) ==
    /\ loaded_model = r.loaded_model
    /\ choice = r.choice
    /\ inputs = r.inputs
    /\ BMI = r.BMI
    /\ run = r.run
    /\ shown = r.shown
    /\ escaped = r.escaped

FirstRun(a) == Execute(a, "Risk Assessment", AllNone, AllNone, None, FALSE, Returns(<<>>))

session == <<assessments, posts, appointments>>

KeysAfter(ld, keys) == IF ld.exc # "none" THEN keys ELSE main_init(keys)

\* 'posts' after an execution that shows page ch: the forum page calls display_posts
PostsAfter(ld, ch, keys, ps) ==
    IF ld.exc # "none" \/ ch # "Discussion Forum" THEN ps
    ELSE display_posts(main_init(keys), ps)

\* lines 740-745: the appointment page sorts what is stored, when there is any
ViewAfter(ld, ch, as) ==
    IF ld.exc # "none" \/ ch # "Doctor Appointment" THEN <<>>
    ELSE sorted_appointments(as)

\* an execution that shows page ch creates the session keys and draws the
\* appointments table
Drawn(ld, ch) ==
    /\ session_keys' = KeysAfter(ld, session_keys)
    /\ view' = ViewAfter(ld, ch, appointments')

\* a new browser session has run the script once, on the first page of the menu
Init ==
    /\ artifact \in Artifacts
    /\ Is(FirstRun(artifact))
    /\ assessments = NewSession.assessments
    /\ posts = NewSession.posts
    /\ appointments = NewSession.appointments
    /\ session_keys = KeysAfter(load_model(artifact), {})
    /\ view = <<>>
    /\ call = NoCall

\* the last execution got as far as drawing the widgets
Interactive == choice # NoPage

\* the user picks another page in the sidebar
Navigate(p) ==
    /\ Interactive
    /\ p # choice
    /\ Becomes(Execute(artifact, p, inputs, inputs, BMI, FALSE, Returns(<<>>)))
    /\ posts' = PostsAfter(load_model(artifact), p, session_keys, posts)
    /\ UNCHANGED <<artifact, call, assessments, appointments>>
    /\ Drawn(load_model(artifact), p)

\* the user changes or clears one number_input
EditInput(k, v) ==
    /\ Interactive
    /\ choice = "Risk Assessment"
    /\ v # inputs[k]
    /\ Becomes(Execute(artifact, choice, inputs, [inputs EXCEPT ![k] = v], BMI,
                       FALSE, Returns(<<>>)))
    /\ UNCHANGED <<artifact, call, session>>
    /\ Drawn(load_model(artifact), choice)

\* an assess action that keeps the level of the assessment before it
Assess_cached ==
    /\ Interactive
    /\ choice = "Risk Assessment"
    /\ \E outcome \in Outcomes :
           Becomes(IF run.risk_level \in {"Low", "Moderate", "Elevated"}
                   THEN [Execute(artifact, choice, inputs, inputs, BMI, TRUE, outcome)
                            EXCEPT !.run.risk_level = run.risk_level]
                   ELSE Execute(artifact, choice, inputs, inputs, BMI, TRUE, outcome))
    /\ UNCHANGED <<artifact, call, session>>
    /\ Drawn(load_model(artifact), choice)

\* an assess action that files its level under a user id in 'assessments'
Assess_saving ==
    /\ Interactive
    /\ choice = "Risk Assessment"
    /\ \E outcome \in Outcomes :
           Becomes(Execute(artifact, choice, inputs, inputs, BMI, TRUE, outcome))
    /\ assessments' = [user_id \in {"minh"} |->
                          Append(load_assessment_history(assessments, user_id),
                                 run'.risk_level)]
    /\ UNCHANGED <<artifact, call, posts, appointments>>
    /\ Drawn(load_model(artifact), choice)

\* the user clicks "Get My Risk Assessment"
Assess ==
    /\ Interactive
    /\ choice = "Risk Assessment"
    /\ \E outcome \in Outcomes :
           Becomes(Execute(artifact, choice, inputs, inputs, BMI, TRUE, outcome))
    /\ UNCHANGED <<artifact, call, session>>
    /\ Drawn(load_model(artifact), choice)

\* the user reloads the browser page: a new session
Reload ==
    /\ Becomes(FirstRun(artifact))
    /\ assessments' = NewSession.assessments
    /\ posts' = NewSession.posts
    /\ appointments' = NewSession.appointments
    /\ session_keys' = KeysAfter(load_model(artifact), {})
    /\ view' = <<>>
    /\ UNCHANGED <<artifact, call>>

Next ==
    \/ \E p \in Pages : Navigate(p)
    \/ \E k \in input_keys : \E v \in WidgetValues(k) : EditInput(k, v)
    \/ Assess
    \/ Reload

Spec == Init /\ [][Next]_vars

----------------------------------------------------------------------------
(* The forum and the appointment page *)

\* an execution in which a form of page ch was submitted: msgs is what the
\* handler left on the page.  After st.rerun() the script runs once more
\* and lines 78-83 give ld again.
Submitted(ld, ch, ss, bmi0, msgs) ==
    IF ld.exc # "none"
    THEN Executed(ld, NoPage, NotReached(ss, bmi0))
    ELSE Executed(ld, ch, [NotReached(ss, bmi0) EXCEPT !.shown = msgs])

Handled(ld, old, new) == IF ld.exc # "none" THEN old ELSE new

\* the user submits the new post form
CreatePost(title, content) ==
    /\ Interactive
    /\ choice = "Discussion Forum"
    /\ Len(posts) < MaxPosts
    /\ posts' = Handled(load_model(artifact), posts,
                        PostsAfter(load_model(artifact), choice, session_keys,
                                   create_new_post(posts, title, content).posts))
    /\ Becomes(Submitted(load_model(artifact), choice, inputs, BMI,
                         create_new_post(posts, title, content).shown))
    /\ UNCHANGED <<artifact, call, assessments, appointments>>
    /\ Drawn(load_model(artifact), choice)

\* the user submits the booking form, with the default time
BookAppointment(doctor, date) ==
    /\ Interactive
    /\ choice = "Doctor Appointment"
    /\ Len(appointments) < MaxAppointments
    /\ appointments' = Handled(load_model(artifact), appointments,
                               book_appointment(appointments, doctor, Hospital, date,
                                                NineOClock, Reason, ""))
    /\ Becomes(Submitted(load_model(artifact), choice, inputs, BMI, <<>>))
    /\ UNCHANGED <<artifact, call, assessments, posts>>
    /\ Drawn(load_model(artifact), choice)

\* the two fields the user edits when the other pages are explored as well
AppKeys == {"glucose", "height"}

AppNext ==
    \/ \E p \in Pages : Navigate(p)
    \/ \E k \in AppKeys : \E v \in WidgetValues(k) : EditInput(k, v)
    \/ Assess
    \/ Reload
    \/ \E title \in Titles, content \in Contents : CreatePost(title, content)
    \/ \E doctor \in Doctors, date \in Dates : BookAppointment(doctor, date)

AppSpec == Init /\ [][AppNext]_vars

----------------------------------------------------------------------------
(* One session on the forum *)

\* the user submits the comment form of the post drawn at index i
PostComment(i, comment_text) ==
    /\ Interactive
    /\ choice = "Discussion Forum"
    /\ i \in 1..Len(posts)
    /\ Len(posts[i].comments) < MaxComments
    /\ posts' = Handled(load_model(artifact), posts,
                        PostsAfter(load_model(artifact), choice, session_keys,
                                   post_comment(posts, i, comment_text).posts))
    /\ Becomes(Submitted(load_model(artifact), choice, inputs, BMI,
                         post_comment(posts, i, comment_text).shown))
    /\ UNCHANGED <<artifact, call, assessments, appointments>>
    /\ Drawn(load_model(artifact), choice)

ForumNext ==
    \/ \E p \in Pages : Navigate(p)
    \/ \E title \in ForumTitles, content \in Contents : CreatePost(title, content)
    \/ \E i \in 1..MaxPosts, comment_text \in CommentTexts : PostComment(i, comment_text)

ForumSpec == Init /\ [][ForumNext]_vars

----------------------------------------------------------------------------
(* One session on the appointment page *)

\* the user submits the booking form with a time of their choice
BookAt(doctor, date, time) ==
    /\ Interactive
    /\ choice = "Doctor Appointment"
    /\ Len(appointments) < MaxAppointments
    /\ appointments' = Handled(load_model(artifact), appointments,
                               book_appointment(appointments, doctor, Hospital, date,
                                                time, Reason, ""))
    /\ Becomes(Submitted(load_model(artifact), choice, inputs, BMI, <<>>))
    /\ UNCHANGED <<artifact, call, assessments, posts>>
    /\ Drawn(load_model(artifact), choice)

\* the user clicks the cancel button of the i-th appointment of the manage
\* list, which is drawn for an appointment shown as Booked
CancelAppointment(i) ==
    /\ Interactive
    /\ choice = "Doctor Appointment"
    /\ i \in 1..Len(view)
    /\ view[i].status = "Booked"
    /\ appointments' = Handled(load_model(artifact), appointments,
                               cancel_appointment(appointments,
                                                  sorted_appointments(appointments)[i]))
    /\ Becomes(Submitted(load_model(artifact), choice, inputs, BMI, <<>>))
    /\ UNCHANGED <<artifact, call, assessments, posts>>
    /\ Drawn(load_model(artifact), choice)

BookingNext ==
    \/ \E p \in Pages : Navigate(p)
    \/ \E doctor \in Doctors, date \in Dates, time \in Times : BookAt(doctor, date, time)
    \/ \E i \in 1..MaxAppointments : CancelAppointment(i)

BookingSpec == Init /\ [][BookingNext]_vars

----------------------------------------------------------------------------
(* The classifier file changing on disk while the application runs *)

\* trained_model.joblib is deleted, replaced or restored between two executions
ArtifactChanges(a) ==
    /\ a # artifact
    /\ artifact' = a
    /\ UNCHANGED <<loaded_model, choice, inputs, BMI, run, shown, escaped, call, session,
                   session_keys, view>>

EnvNext ==
    \/ \E p \in Pages : Navigate(p)
    \/ \E k \in AppKeys : \E v \in WidgetValues(k) : EditInput(k, v)
    \/ Assess
    \/ Reload
    \/ \E a \in Artifacts : ArtifactChanges(a)

EnvSpec == Init /\ [][EnvNext]_vars

----------------------------------------------------------------------------
(* Direct calls of the module-level functions *)

ProbArgs ==
    {None} \cup {Rat(k, 100) : k \in 0..100}
    \cup {Rat(199999, 1000000), Rat(499999, 1000000)}

WeightArgs == {Num(0), Num(20), Num(70), Num(95)}
HeightArgs == {Num(-1), Rat(-1, 2), Num(0), Rat(1, 2), Rat(160, 100), Rat(170, 100), Num(3)}

VectorArgs ==
    {input_data_list(final_values(AllNone), Num(24)),
     <<Num(1), Num(180), Num(95), Num(35), Num(0), Num(37), Num(1), Num(45)>>,
     <<Num(0), Num(0), Num(0), Num(0), Num(0), Num(0), Num(0), Num(0)>>}

app ==
    <<artifact, loaded_model, choice, inputs, BMI, run, shown, escaped,
      assessments, posts, appointments, session_keys, view>>

Call_get_risk_level ==
    /\ \E probability \in ProbArgs :
        call' = [fn |-> "get_risk_level", args |-> <<probability>>,
                 res |-> [exc |-> "none", ret |-> get_risk_level(probability)]]
    /\ UNCHANGED app

Call_calculate_bmi ==
    /\ \E weight \in WeightArgs, height \in HeightArgs :
        call' = [fn |-> "calculate_bmi", args |-> <<weight, height>>,
                 res |-> calculate_bmi(weight, height)]
    /\ UNCHANGED app

Call_diabetes_prediction_proba ==
    /\ \E input_data \in VectorArgs, model \in {None, TheModel}, outcome \in Outcomes :
        call' = [fn |-> "diabetes_prediction_proba",
                 args |-> <<input_data, model, outcome>>,
                 res |-> diabetes_prediction_proba(input_data, model, outcome)]
    /\ UNCHANGED app

\* the three levels, what get_risk_level gives for None, and other strings
LevelArgs == {"Low", "Moderate", "Elevated", "N/A", "Unavailable", ""}

Call_display_risk_interpretation ==
    /\ \E risk_level \in LevelArgs, probability \in {None, Rat(18, 100), Rat(62, 100)} :
        call' = [fn |-> "display_risk_interpretation",
                 args |-> <<risk_level, probability>>,
                 res |-> display_risk_interpretation(risk_level, probability)]
    /\ UNCHANGED app

FnNext ==
    \/ Call_get_risk_level
    \/ Call_calculate_bmi
    \/ Call_diabetes_prediction_proba
    \/ Call_display_risk_interpretation
    \/ Assess

FnSpec == Init /\ [][FnNext]_vars

----------------------------------------------------------------------------
(* Properties *)

Levels == {"Low", "Moderate", "Elevated"}

\* the defaults as the specification documents them
Documented ==
    [age |-> Num(30), weight |-> Num(70), height |-> Rat(170, 100),
     pregnancies |-> Num(0), glucose |-> Num(100), blood_pressure |-> Num(80),
     skin_thickness |-> Num(20), insulin |-> Num(50),
     diabetes_pedigree_function |-> Rat(5, 10)]

\* the assess handler took the scoring branch in the last execution
Scored == run.button /\ loaded_model # None

\* some message on the page says that no assessment is available
UnavailableShown ==
    \E i \in 1..Len(shown) : shown[i] \in {ModelNotLoadedMsg, UnavailableMsg}

\* no message on the page carries a risk level or a percentage
NoLevelShown ==
    \A i \in 1..Len(shown) : shown[i].text \notin Levels /\ shown[i].pct = None

\* C1: get_risk_level maps p < 0.20 to Low, 0.20 <= p < 0.50 to Moderate and
\* p >= 0.50 to Elevated; exactly 0.20 is Moderate, exactly 0.50 is Elevated,
\* 0.199999 is Low and 0.499999 is Moderate; the level an assess action computes
\* is the bucket of the probability it obtained.
C1_ClosedOpenBuckets ==
    /\ (call.fn = "get_risk_level" /\ call.args[1] # None) =>
        LET p == call.args[1]
            level == call.res.ret
        IN  /\ (5 * p[1] < p[2]) => level = "Low"
            /\ (5 * p[1] >= p[2] /\ 2 * p[1] < p[2]) => level = "Moderate"
            /\ (2 * p[1] >= p[2]) => level = "Elevated"
            /\ (p = <<199999, 1000000>>) => level = "Low"
            /\ (p = <<1, 5>>) => level = "Moderate"
            /\ (p = <<499999, 1000000>>) => level = "Moderate"
            /\ (p = <<1, 2>>) => level = "Elevated"
    /\ (run.risk_level # "unset" /\ run.risk_probability # None) =>
        LET p == run.risk_probability
        IN  run.risk_level = IF 5 * p[1] < p[2] THEN "Low"
                             ELSE IF 2 * p[1] < p[2] THEN "Moderate"
                             ELSE "Elevated"

C1_Witness ==
    /\ call.fn = "get_risk_level"
    /\ call.args = << <<1, 5>> >>
    /\ call.res.ret = "Moderate"

\* C2: get_risk_level is total: None maps to "N/A", and every probability in
\* [0, 1] maps to one of Low, Moderate, Elevated and never to "N/A".
C2_TotalPartition ==
    (call.fn = "get_risk_level") =>
        LET p == call.args[1]
            level == call.res.ret
        IN  /\ call.res.exc = "none"
            /\ level \in Levels \cup {"N/A"}
            /\ (p = None) => level = "N/A"
            /\ (p # None /\ 0 <= p[1] /\ p[1] <= p[2]) => level \in Levels

C2_Witness ==
    /\ call.fn = "get_risk_level"
    /\ call.args = <<None>>
    /\ call.res.ret = "N/A"

\* C3: the array handed to predict_proba is one row of exactly 8 elements, in the
\* order pregnancies, glucose, blood_pressure, skin_thickness, insulin, bmi,
\* diabetes_pedigree_function, age of the resolved values; weight and height
\* enter only as bmi = weight / height^2.
C3_FeatureVectorOrder ==
    (run.classifier_calls # <<>>) =>
        LET v == run.classifier_calls[1][1]
            w == run.final["weight"]
            h == run.final["height"]
        IN  /\ Len(run.classifier_calls) = 1
            /\ Len(run.classifier_calls[1]) = 1
            /\ Len(v) = 8
            /\ v[1] = run.final["pregnancies"]
            /\ v[2] = run.final["glucose"]
            /\ v[3] = run.final["blood_pressure"]
            /\ v[4] = run.final["skin_thickness"]
            /\ v[5] = run.final["insulin"]
            /\ v[6][1] * h[1] * h[1] * w[2] = w[1] * h[2] * h[2] * v[6][2]
            /\ v[7] = run.final["diabetes_pedigree_function"]
            /\ v[8] = run.final["age"]

C3_Witness ==
    /\ run.classifier_calls # <<>>
    /\ inputs["glucose"] = Num(180)
    /\ inputs["pregnancies"] = Num(3)
    /\ inputs["age"] = None
    /\ run.classifier_calls[1][1][1] = Num(3)
    /\ run.classifier_calls[1][1][2] = Num(180)
    /\ run.classifier_calls[1][1][8] = Num(30)

\* C4: in an assess action every absent field resolves to its documented
\* default, and every other field resolves as it would have with that field
\* present: to its own supplied value, or to its own default.
C4_AbsentFieldsDefault ==
    Scored =>
        \A k \in input_keys :
            (inputs[k] = None) =>
                /\ run.final[k] = Documented[k]
                /\ \A j \in input_keys \ {k} :
                       run.final[j] = IF inputs[j] = None THEN Documented[j]
                                      ELSE inputs[j]

\* only height is absent
C4_Witness ==
    /\ Scored
    /\ inputs["height"] = None
    /\ \A j \in input_keys \ {"height"} : inputs[j] # None
    /\ run.final["height"] = Rat(170, 100)
    /\ run.final["weight"] = Num(95)

\* C5: in an assess action every supplied value, 0 included, is the resolved
\* value; a resolved value differs from the stored one only for an absent field.
C5_SuppliedValuesKept ==
    Scored =>
        \A k \in input_keys :
            /\ (inputs[k] # None) => run.final[k] = inputs[k]
            /\ (run.final[k] # inputs[k]) => inputs[k] = None

C5_Witness ==
    /\ Scored
    /\ inputs["glucose"] = Num(0)
    /\ inputs["age"] = Num(0)
    /\ run.final["glucose"] = Num(0)
    /\ run.final["age"] = Num(0)

\* C6: calculate_bmi(weight, height) raises nothing; for height > 0 its result
\* times height^2 is weight, for height <= 0 its result is 0.
C6_BmiFormula ==
    (call.fn = "calculate_bmi") =>
        LET w == call.args[1]
            h == call.args[2]
            r == call.res
        IN  /\ r.exc = "none"
            /\ (h[1] > 0) =>
                   r.ret[1] * h[1] * h[1] * w[2] = w[1] * h[2] * h[2] * r.ret[2]
            /\ (h[1] <= 0) => r.ret = Num(0)

C6_Witness ==
    /\ call.fn = "calculate_bmi"
    /\ call.args = <<Num(95), Rat(160, 100)>>
    /\ call.res = [exc |-> "none", ret |-> <<2375, 64>>]

\* C7: with the classifier file missing, every assess action ends without an
\* exception, with no probability and no classifier call, shows no risk level
\* or percentage, and tells the user that the risk cannot be assessed.
C7_MissingArtifactUnavailable ==
    (artifact = "missing" /\ run.button) =>
        /\ escaped = "none"
        /\ run.risk_probability = None
        /\ run.risk_level \notin Levels
        /\ run.classifier_calls = <<>>
        /\ NoLevelShown
        /\ UnavailableShown

\* an assess action after an input edit and a visit to another page
C7_Witness ==
    /\ artifact = "missing"
    /\ run.button
    /\ inputs["glucose"] = Num(180)
    /\ shown = <<ModelFileNotFoundMsg, ModelNotLoadedMsg>>

\* the assess action obtained a probability in [0, 1]
ValidProbability ==
    /\ run.risk_probability # None
    /\ 0 <= run.risk_probability[1]
    /\ run.risk_probability[1] <= run.risk_probability[2]

\* C8: an assess action that obtained no valid probability shows an explicit
\* unavailable message and shows no Low, Moderate or Elevated result and no
\* percentage.
C8_NoFabricatedProbability ==
    (run.button /\ ~ValidProbability) =>
        /\ UnavailableShown
        /\ NoLevelShown

\* the classifier was called in the last execution and the call raised, or what
\* it returned could not be indexed
ClassifierFailed == run.classifier_calls # <<>> /\ run.risk_level = "unset"

\* C9: when the classifier call fails during an assess action, the page catches
\* the failure, shows a generic unavailable message and no risk level, and the
\* call is made once.
C9_ClassifierFailureCaught ==
    ClassifierFailed =>
        /\ escaped = "none"
        /\ UnavailableShown
        /\ NoLevelShown
        /\ Len(run.classifier_calls) = 1

\* C10: diabetes_prediction_proba with model None returns None for every
\* input vector, raises nothing and makes no classifier call; an assess action
\* with no model loaded builds no vector, calls nothing and computes no level.
C10_NoModelReturnsNone ==
    /\ (call.fn = "diabetes_prediction_proba" /\ call.args[2] = None) =>
        call.res = [exc |-> "none", ret |-> None, calls |-> <<>>]
    /\ (run.button /\ loaded_model = None) =>
        /\ escaped = "none"
        /\ run.input_data = None
        /\ run.classifier_calls = <<>>
        /\ run.risk_probability = None
        /\ run.risk_level = "unset"

\* a direct call with no model, the classifier being one that would have raised
C10_Witness ==
    /\ call.fn = "diabetes_prediction_proba"
    /\ call.args[2] = None
    /\ call.args[3] = Raises
    /\ call.res.ret = None
    /\ run.button
    /\ loaded_model = None

\* the last execution ran to its end with no classifier loaded: the page
\* chosen in the sidebar was drawn, so the sidebar and the forms of that page
\* take the next interaction
StartedWithoutClassifier ==
    /\ escaped = "none"
    /\ loaded_model = None
    /\ choice \in Pages
    /\ Interactive

\* C11: when the classifier file is missing, every execution completes
\* without an exception and with no classifier loaded; the assess action
\* is the only thing disabled (it reports 'Model not loaded' and scores
\* nothing) and the page chosen in the sidebar is drawn, whichever it is.
C11_MissingArtifactRecoverable ==
    artifact = "missing" =>
        /\ StartedWithoutClassifier
        /\ ModelFileNotFoundMsg \in {shown[i] : i \in DOMAIN shown}
        /\ run.button => (run.input_data = None /\ UnavailableShown)

\* a post and a booking were made and the About page opened, all without
\* the classifier file
C11_Witness ==
    /\ artifact = "missing"
    /\ choice = "About"
    /\ Len(posts) = 1
    /\ Len(appointments) = 1
    /\ escaped = "none"

\* C12: a classifier file that is present but cannot be loaded is treated like
\* a missing one: the execution completes with no classifier loaded and the
\* pages are drawn.
C12_UnreadableLikeMissing ==
    artifact = "unreadable" => StartedWithoutClassifier

\* the entry of the classifier's first row that the claim names: the second
\* when the row has more than one entry, the only one otherwise
PositiveClass(row) == IF Len(row) > 1 THEN row[2] ELSE row[1]

\* the classifier answered with at least one row that has at least one entry
AnsweredWithRow(outcome) ==
    /\ outcome.exc = "none"
    /\ Len(outcome.ret) > 0
    /\ Len(outcome.ret[1]) > 0

\* C13: with a classifier loaded, diabetes_prediction_proba calls it once
\* with the eight-element vector as a single row, and returns the second
\* entry of the answer's first row when that row has more than one entry and
\* its only entry when it has exactly one; the assess action takes that value
\* as the probability.
C13_PositiveClassColumn ==
    /\ (/\ call.fn = "diabetes_prediction_proba"
        /\ call.args[2] # None
        /\ AnsweredWithRow(call.args[3])) =>
            /\ call.res.calls = << <<call.args[1]>> >>
            /\ Len(call.args[1]) = 8
            /\ call.res.exc = "none"
            /\ call.res.ret = PositiveClass(call.args[3].ret[1])
    /\ (Scored /\ AnsweredWithRow(run.prediction_proba)) =>
            /\ run.classifier_calls = << <<run.input_data>> >>
            /\ Len(run.input_data) = 8
            /\ run.risk_probability = PositiveClass(run.prediction_proba.ret[1])

\* a direct call answered with three columns returned the second, and an
\* assess action answered with one column took it
C13_Witness ==
    /\ call.fn = "diabetes_prediction_proba"
    /\ call.args[2] = TheModel
    /\ call.args[3] = Returns(<< <<Rat(20, 100), Rat(30, 100), Rat(50, 100)>> >>)
    /\ call.res.ret = Rat(30, 100)
    /\ Scored
    /\ run.prediction_proba = Returns(<< <<Rat(62, 100)>> >>)
    /\ run.risk_probability = Rat(62, 100)

\* the lookup table of the claim: one tone per level
Tone(level) ==
    CASE level = "Low" -> "success"
      [] level = "Moderate" -> "warning"
      [] level = "Elevated" -> "error"
      [] OTHER -> "info"

\* a call of display_risk_interpretation emitted exactly one message, that of
\* the level's entry
OneMessageOfLevel ==
    /\ call.res.exc = "none"
    /\ Len(call.res.shown) = 1
    /\ call.res.shown[1].tone = Tone(call.args[1])
    /\ call.args[1] \in Levels => call.res.shown[1].text = call.args[1]
    /\ call.args[1] \notin Levels => call.res.shown[1] = UnavailableMsg

BmiOfInputs ==
    TrueDiv(IF inputs["weight"] # None THEN inputs["weight"] ELSE Documented.weight,
            Mul(IF inputs["height"] # None THEN inputs["height"] ELSE Documented.height,
                IF inputs["height"] # None THEN inputs["height"] ELSE Documented.height)).ret

\* C15: in every execution of the risk page in which the assess button is
\* pressed and a feature vector is built, the BMI in the vector equals the
\* BMI shown live and stored under 'BMI' in that execution, and both are
\* weight / height^2 of the resolved weight and height.
C15_LiveBmiEqualsScoringBmi ==
    (run.button /\ run.input_data # None) =>
        /\ run.input_data[6] = BMI
        /\ BMI = BmiOfInputs

\* weight supplied, height blank: 95 / 1.70^2 in both places
C15_Witness ==
    /\ run.button
    /\ run.input_data # None
    /\ inputs["weight"] = Num(95)
    /\ inputs["height"] = None
    /\ BMI = Rat(95 * 10000, 170 * 170)
    /\ run.input_data[6] = BMI

\* the stored value of field k, the documented default standing in for a blank
Resolved(k) == IF inputs[k] # None THEN inputs[k] ELSE Documented[k]

\* the feature vector as a function of the nine stored field values
VectorOfInputs ==
    <<Resolved("pregnancies"), Resolved("glucose"), Resolved("blood_pressure"),
      Resolved("skin_thickness"), Resolved("insulin"), BmiOfInputs,
      Resolved("diabetes_pedigree_function"), Resolved("age")>>

\* the level as a function of the classifier's answer
LevelOfAnswer(answer) ==
    IF ~AnsweredWithRow(answer) THEN "unset"
    ELSE IF Lt(PositiveClass(answer.ret[1]), Rat(20, 100)) THEN "Low"
    ELSE IF Lt(PositiveClass(answer.ret[1]), Rat(50, 100)) THEN "Moderate"
    ELSE "Elevated"

\* C16: the feature vector of an assess action is a function of the nine
\* current field values and its level a function of the classifier's answer,
\* whatever assessments, edits, page visits, posts and bookings came before;
\* two assess actions with the same field values and the same answer
\* therefore give the same vector and level.
C16_AssessIndependentOfHistory ==
    /\ Scored =>
        /\ run.input_data = VectorOfInputs
        /\ run.risk_level = LevelOfAnswer(run.prediction_proba)
    /\ (run.button /\ ~Scored) =>
        /\ run.input_data = None
        /\ run.risk_level = "unset"

\* an assess action after an edit, a post and a booking
C16_Witness ==
    /\ Scored
    /\ inputs["glucose"] = Num(180)
    /\ Len(posts) > 0
    /\ Len(appointments) > 0
    /\ run.risk_level = "Elevated"
    /\ run.input_data = VectorOfInputs

NonNegative(x) == x[1] >= 0

\* C17: no stored field is negative, and in every assess action that reaches
\* scoring every resolved field and every element of the feature vector,
\* the BMI included, is non-negative.
C17_NoNegativeField ==
    /\ \A k \in input_keys : inputs[k] # None => NonNegative(inputs[k])
    /\ Scored => \A k \in input_keys : NonNegative(run.final[k])
    /\ run.input_data # None =>
           \A i \in 1..Len(run.input_data) : NonNegative(run.input_data[i])

\* glucose, insulin and age at their lower limit 0 entered scoring
C17_Witness ==
    /\ Scored
    /\ inputs["glucose"] = Num(0)
    /\ inputs["insulin"] = Num(0)
    /\ inputs["age"] = Num(0)
    /\ run.input_data[2] = Num(0)
    /\ run.input_data[5] = Num(0)
    /\ run.input_data[8] = Num(0)

\* 'assessments' is the empty mapping and every history read from it is empty
NoAssessmentStored ==
    /\ DOMAIN assessments = {}
    /\ \A user_id \in UserIds : load_assessment_history(assessments, user_id) = <<>>

\* a step in which the assess button was pressed left the stored inputs,
\* 'BMI', 'assessments', 'posts' and 'appointments' as they were
AssessStepKeepsSession ==
    run'.button =>
        /\ inputs' = inputs
        /\ BMI' = BMI
        /\ assessments' = assessments
        /\ posts' = posts
        /\ appointments' = appointments

\* C18: the assess handler leaves all session state unchanged (the nine
\* stored inputs, 'BMI', 'assessments', 'posts', 'appointments'); 'assessments'
\* is the empty mapping from the start and after every step, and
\* load_assessment_history returns an empty list for every user id.
C18_AssessStoresNothing ==
    /\ NoAssessmentStored
    /\ [][AssessStepKeepsSession /\ NoAssessmentStored']_vars

\* a scored assess action in a session holding a post and two bookings
C18_Witness ==
    /\ run.button
    /\ run.risk_level = "Low"
    /\ Len(posts) = 1
    /\ Len(appointments) = 2
    /\ inputs["height"] = Rat(160, 100)
    /\ NoAssessmentStored

\* C19: the classifier reference is set once, by the first execution, and no
\* later step changes it.
C19_ClassifierSetOnce == [][loaded_model' = loaded_model]_vars

\* the classifier answered 0.18 for the positive class
Answered018 ==
    run.prediction_proba \in {Returns(<< <<Rat(82, 100), Rat(18, 100)>> >>),
                              Returns(<< <<Rat(18, 100)>> >>)}

\* C20: an assess action with all nine inputs absent resolves them to the
\* defaults, computes the BMI 70 / 1.70^2 (24.22 to two decimals) and builds
\* the vector [0, 100, 80, 20, 50, BMI, 0.5, 30]; when the classifier answers
\* 0.18 the probability is 0.18 and the level Low, shown as a success message
\* with 18.00%.
C20_EndToEndDefaults ==
    (Scored /\ inputs = AllNone) =>
        /\ run.final = Documented
        /\ BMI = Rat(7000, 289)
        /\ Le(Rat(2422, 100), BMI) /\ Lt(BMI, Rat(2423, 100))
        /\ run.input_data =
               <<Num(0), Num(100), Num(80), Num(20), Num(50), Rat(7000, 289),
                 Rat(5, 10), Num(30)>>
        /\ Answered018 =>
               /\ run.risk_probability = Rat(18, 100)
               /\ run.risk_level = "Low"
               /\ escaped = "none"
               /\ shown = <<Msg("success", "Low", Num(18))>>

\* the scenario itself: all inputs blank, the classifier answering [0.82, 0.18]
C20_Witness ==
    /\ Scored
    /\ inputs = AllNone
    /\ run.prediction_proba = Returns(<< <<Rat(82, 100), Rat(18, 100)>> >>)
    /\ run.risk_level = "Low"

\* no post of the list was created with the new post form
NoPostCreated == \A i \in 1..Len(posts) : posts[i].title \notin ForumTitles

\* C21: once main() has run and the forum page is shown with no post created
\* yet, 'posts' holds exactly the three built-in default posts.
C21_DefaultPostsPopulated ==
    (choice = "Discussion Forum" /\ escaped = "none" /\ NoPostCreated) =>
        /\ Len(posts) = 3
        /\ \A i \in 1..3 :
               /\ posts[i].title = DefaultPosts[i].title
               /\ posts[i].content = DefaultPosts[i].content

\* the stored list after the very appointment drawn at index i of the manage
\* list became Cancelled and nothing else changed
PressedOneCancelled(i) ==
    [k \in 1..Len(appointments) |->
        IF k = sort_order(appointments)[i]
        THEN [appointments[k] EXCEPT !.status = "Cancelled"]
        ELSE appointments[k]]

\* C22: pressing the cancel button of an appointment shown as Booked sets
\* that very appointment to Cancelled and changes no other appointment.
C22_CancelHitsPressedAppointment ==
    [][\A i \in 1..MaxAppointments :
          CancelAppointment(i) => appointments' = PressedOneCancelled(i)]_vars

\* C23: submitting the new post form with a non-empty title and a non-empty
\* content puts exactly one post with that title, that content and no
\* comment at index 0 of 'posts'; every earlier post is unchanged and one
\* position further down.
C23_NewPostInsertedFirst ==
    [][\A title \in ForumTitles \ {""}, content \in Contents \ {""} :
          CreatePost(title, content) =>
              /\ Len(posts') = Len(posts) + 1
              /\ posts'[1] = [title |-> title, content |-> content, comments |-> <<>>]
              /\ \A k \in 1..Len(posts) : posts'[k + 1] = posts[k]]_vars

\* a commented post moved down by a newer post with another title
C23_Witness ==
    /\ Len(posts) = 2
    /\ posts[1].title = "Walking after meals"
    /\ posts[1].comments = <<>>
    /\ posts[2].title = "My Experience with Low-Carb Diet"
    /\ posts[2].comments = <<"Thanks for sharing!">>

\* C24: submitting the new post form with an empty title or an empty content,
\* or a comment form with an empty text, leaves 'posts' exactly as it was.
C24_EmptySubmissionRejected ==
    [][/\ \A title \in ForumTitles, content \in Contents :
              (CreatePost(title, content) /\ (title = "" \/ content = "")) =>
                  posts' = posts
       /\ \A i \in 1..MaxPosts : PostComment(i, "") => posts' = posts]_vars

\* an empty comment was refused on a forum that holds a commented post
C24_Witness ==
    /\ choice = "Discussion Forum"
    /\ shown = <<CommentWarningMsg>>
    /\ Len(posts) = 1
    /\ posts[1].comments = <<"Same here.">>

\* the list after text was appended to the comments of post i alone
CommentAppended(i, text) ==
    [k \in 1..Len(posts) |->
        IF k = i
        THEN [title |-> posts[k].title, content |-> posts[k].content,
              comments |-> posts[k].comments \o <<text>>]
        ELSE posts[k]]

\* C25: posting a non-empty comment on the post drawn at position i appends
\* the text as the last comment of that post; its earlier comments keep their
\* order and every other post is unchanged.
C25_CommentAppendedToPost ==
    [][\A i \in 1..MaxPosts, text \in CommentTexts \ {""} :
          PostComment(i, text) => posts' = CommentAppended(i, text)]_vars

\* two comments in posting order on the second post, none on the first
C25_Witness ==
    /\ Len(posts) = 2
    /\ posts[1].comments = <<>>
    /\ posts[2].comments = <<"Same here.", "Thanks for sharing!">>

\* C26: submitting the booking form appends exactly one appointment with
\* status Booked, carrying the selected doctor, hospital, date, time, reason
\* and notes, to the end of 'appointments'; every stored appointment is
\* unchanged, status included, and a booking equal to a stored one is
\* accepted as one more entry.
C26_BookingAppended ==
    [][\A doctor \in Doctors, date \in Dates, time \in Times :
          BookAt(doctor, date, time) =>
              /\ Len(appointments') = Len(appointments) + 1
              /\ appointments'[Len(appointments')] =
                     [doctor |-> doctor, hospital |-> Hospital, date |-> date,
                      time |-> time, reason |-> Reason, notes |-> "",
                      status |-> "Booked"]
              /\ \A k \in 1..Len(appointments) : appointments'[k] = appointments[k]]_vars

\* the same booking stored twice
C26_Witness ==
    /\ Len(appointments) = 2
    /\ appointments[1] = appointments[2]
    /\ appointments[1].status = "Booked"
    /\ appointments[1].time = NineOClock + 30

\* C27: every stored appointment is Booked or Cancelled; no step turns a
\* Cancelled appointment into anything else, and no step removes an
\* appointment: the list only grows at its end.
C27_StatusMonotone ==
    /\ [](\A k \in 1..Len(appointments) :
              appointments[k].status \in {"Booked", "Cancelled"})
    /\ [][/\ Len(appointments') >= Len(appointments)
          /\ \A k \in 1..Len(appointments) :
                 /\ appointments[k].status = "Cancelled" =>
                        appointments'[k].status = "Cancelled"
                 /\ [appointments'[k] EXCEPT !.status = "Booked"] =
                        [appointments[k] EXCEPT !.status = "Booked"]]_vars

\* a booking made after a cancellation
C27_Witness ==
    /\ Len(appointments) = 2
    /\ appointments[1].status = "Cancelled"
    /\ appointments[2].status = "Booked"
    /\ appointments[2].date < appointments[1].date

Count(seq, x) == Cardinality({i \in 1..Len(seq) : seq[i] = x})

\* view shows every stored appointment exactly once, in ascending (date, time)
SortedViewOfStored ==
    /\ Len(view) = Len(appointments)
    /\ \A k \in 1..Len(appointments) :
           Count(view, appointments[k]) = Count(appointments, appointments[k])
    /\ \A i \in 1..Len(view), j \in 1..Len(view) :
           i < j => ~KeyLess(view[j], view[i])

\* C28: the table and the manage list show every stored appointment exactly
\* once in ascending (date, time) order, and drawing them leaves the stored
\* list as it was, in booking order.
C28_SortedViewLeavesStored ==
    /\ [](choice = "Doctor Appointment" => SortedViewOfStored)
    /\ [][(\E p \in Pages : Navigate(p)) => appointments' = appointments]_vars

\* stored in booking order, drawn in another order
C28_Witness ==
    /\ choice = "Doctor Appointment"
    /\ Len(appointments) = 2
    /\ appointments[1].date = 1
    /\ appointments[2].date = 0
    /\ view = <<appointments[2], appointments[1]>>

====
